---- MODULE Spec2Model ----
(***************************************************************************)
(* Hybrid claim-verification pipeline of the Fake-News-Bot backend:        *)
(*   - /analyze/text (backend/api/app.py): local match, Gemini fallback,   *)
(*     confidence gate, learning writeback, query log;                     *)
(*   - ingestion (backend/scrapers/run_all_scrapers.py, deduplicator.py):  *)
(*     filter_duplicates against the stored corpus, save_fact_checks_to_db.*)
(* Scores and confidences are percentages (0.75 is 75).                    *)
(***************************************************************************)
EXTENDS Integers, Sequences, FiniteSets, TLC

VARIABLES corpus, h, resp, hist, ing, tw, msg

vars == <<corpus, h, resp, hist, ing, tw, msg>>

(* ------------------------------ bounds --------------------------------- *)

\* length of one scraped batch
MaxBatch == 2
\* number of records stored before the ingestion runs of SpecDedup start
MaxCorpus == 3
\* number of log_message calls in one run
MaxCalls == 103

(* ------------------------- program constants --------------------------- *)

\* SIMILARITY_THRESHOLD default
MatchThreshold == 75
\* GEMINI_CONFIDENCE_THRESHOLD default
GateThreshold == 60
\* GEMINI_LEARNING_THRESHOLD default
LearningThreshold == 90
\* Deduplicator(similarity_threshold=0.85)
DedupThreshold == 85
\* confidence_score of a record that has none (SQL NULL)
Null == -1
\* 'id': None of a Gemini pseudo fact-check
NoId == 0
\* "if len(message_logs) > 100"
MaxLogs == 100

(* ------------------------------ inputs --------------------------------- *)

\* the request handler threads
Handlers == {"w1", "w2"}

\* the texts of requests and of scraped claims; the letter is the language
\* langdetect reports for the text, and "" is the empty text (for which
\* langdetect raises)
Texts == {"e1", "e2", "t1", "h1", ""}

\* TextAnalyzer.detect_language: langdetect's code, mapped to a supported
\* language, 'en' for any other code and when detection fails
detect_language(text) ==
    CASE text = "t1" -> "ta"
      [] text = "h1" -> "hi"
      [] OTHER -> "en"

\* cosine similarity of the sentence embeddings of two texts, symmetric, 100
\* for identical texts (the embedder is deterministic)
SimTable(a, b) ==
    CASE {a, b} = {"e1", "t1"} -> 75
      [] {a, b} = {"e1", "h1"} -> 74
      [] {a, b} = {"t1", "h1"} -> 90
      [] {a, b} = {"e1", "e2"} -> 74
      [] {a, b} = {"e2", "t1"} -> 84
      [] {a, b} = {"e2", "h1"} -> 85
      [] OTHER -> 0

compute_similarity(a, b) == IF a = b THEN 100 ELSE SimTable(a, b)

(* ------------------------- TextAnalyzer -------------------------------- *)

\* the threshold test with the boundary left out
ScoreMatchesStrict(score) == score > MatchThreshold

\* the score threshold test of find_matching_claims
ScoreMatches(score) == score >= MatchThreshold

\* list.sort(key=score, reverse=True): stable, so equal scores keep the order
\* of the input
RECURSIVE SortByScoreDesc(_)
InsertDesc(sorted, m) ==
    LET before == SelectSeq(sorted, LAMBDA x : x.score >= m.score)
        after == SelectSeq(sorted, LAMBDA x : x.score < m.score)
    IN before \o <<m>> \o after
SortByScoreDesc(ms) ==
    IF ms = <<>> THEN <<>>
    ELSE InsertDesc(SortByScoreDesc(SubSeq(ms, 1, Len(ms) - 1)), ms[Len(ms)])

\* TextAnalyzer.find_matching_claims(query_text, fact_checks)
RECURSIVE ScoreAll(_, _)
ScoreAll(query_text, fcs) ==
    IF fcs = <<>> THEN <<>>
    ELSE LET fc == Head(fcs)
             score == compute_similarity(query_text, fc.claim)
         IN (IF fc.claim # "" /\ ScoreMatches(score)
             THEN <<[id |-> fc.id, verdict |-> fc.verdict, score |-> score]>>
             ELSE <<>>) \o ScoreAll(query_text, Tail(fcs))

find_matching_claims(query_text, fcs) == SortByScoreDesc(ScoreAll(query_text, fcs))

(* ------------------------- GeminiAnalyzer ------------------------------ *)

\* self.models: the priority list, by position
Models == <<1, 2>>

\* what one model's generate_content call does
ModelOutcomes == {"ok", "blocked", "rate", "hard"}

\* the test of the exception's message ('429', 'quota' or 'rate' in it) with
\* every exception taken for a rate limit
IsRateLimitAny(outcome) == outcome \in {"rate", "hard"}

\* the test of the exception's message ('429', 'quota' or 'rate' in it)
IsRateLimit(outcome) == outcome = "rate"

\* a return that names the first model of the list, whichever answered
ReturnResponseFirst(i) ==
    [raised |-> "none", model |-> Models[1],
     calls |-> <<[model |-> Models[i], outcome |-> "ok"]>>]

\* "return response, model_name"
ReturnResponse(i) ==
    [raised |-> "none", model |-> Models[i],
     calls |-> <<[model |-> Models[i], outcome |-> "ok"]>>]

\* one more turn of the loop "for model_name in self.models": the call of
\* model i came before the calls of rest
AfterCall(i, outcome, rest) ==
    [rest EXCEPT !.calls = <<[model |-> Models[i], outcome |-> outcome]>> \o @]

\* an end of the loop that always reports the blocked responses
AllFailedBlocked(lastErr) == "blocked"

\* "All models failed": raise last_error if a model was rate limited, else
\* the exception that says every model blocked the response
AllFailed(lastErr) == IF lastErr # "none" THEN lastErr ELSE "blocked"

\* _generate_with_fallback over the models from position i on; lastErr is
\* last_error ("none" while no model was rate limited); calls lists the models
\* called, in order, each with what its call did
RECURSIVE generate_with_fallback(_, _, _)
generate_with_fallback(outs, i, lastErr) ==
    IF i > Len(Models)
    THEN [raised |-> AllFailed(lastErr), model |-> 0, calls |-> <<>>]
    ELSE CASE outs[i] = "ok" -> ReturnResponse(i)
           [] outs[i] = "blocked" ->
                AfterCall(i, outs[i], generate_with_fallback(outs, i + 1, lastErr))
           [] outs[i] \notin {"ok", "blocked"} /\ IsRateLimit(outs[i]) ->
                AfterCall(i, outs[i], generate_with_fallback(outs, i + 1, "rate"))
           [] OTHER ->
                [raised |-> "hard", model |-> 0,
                 calls |-> <<[model |-> Models[i], outcome |-> outs[i]]>>]

\* the response texts a model can give: a JSON object with a verdict and a
\* numeric confidence ("json"), text that holds no JSON object ("malformed"),
\* a JSON object with a verdict but no confidence ("missing"), and a JSON
\* object whose confidence is not a number ("badtype")
Verdicts == {"true", "unverified"}
Confidences == {59, 60, 70, 90, 95}
Payloads == [kind : {"json"}, verdict : Verdicts, confidence : Confidences]
              \cup {[kind |-> "malformed", verdict |-> "unverified", confidence |-> 0],
                    [kind |-> "missing", verdict |-> "true", confidence |-> 0],
                    [kind |-> "badtype", verdict |-> "true", confidence |-> 0]}

\* gemini_result = None; of a result, confidence is what
\* gemini_result.get('confidence', 0) returns and shape tells a parsed dict with
\* both fields ("full") from one without confidence ("missing") and one whose
\* confidence cannot be compared with a number ("badtype")
NoResult == [present |-> FALSE, verdict |-> "unverified", confidence |-> 0,
             error |-> "none", model |-> 0, raw |-> FALSE, shape |-> "none"]

\* GeminiAnalyzer.analyze_text_claim once enabled
analyze_text_claim(outs, payload) ==
    LET g == generate_with_fallback(outs, 1, "none")
    IN IF g.raised # "none"
       THEN [present |-> TRUE, verdict |-> "unverified", confidence |-> 0,
             error |-> g.raised, model |-> 0, raw |-> FALSE, shape |-> "none"]
       ELSE IF payload.kind = "malformed"
       THEN [present |-> TRUE, verdict |-> "unverified", confidence |-> 0,
             error |-> "json", model |-> 0, raw |-> TRUE, shape |-> "none"]
       ELSE [present |-> TRUE, verdict |-> payload.verdict,
             confidence |-> payload.confidence,
             error |-> "none", model |-> g.model, raw |-> FALSE,
             shape |-> IF payload.kind = "json" THEN "full" ELSE payload.kind]

(* --------------------------- Deduplicator ------------------------------ *)

\* the lists session.query(FactCheck)...all() can return for the stored rows:
\* the query has no ORDER BY, so the rows come in an order the database picks
StoreOrders(rows) ==
    IF rows = <<>> THEN {<<>>}
    ELSE { [i \in 1..Len(rows) |-> rows[f[i]]] : f \in Permutations(1..Len(rows)) }

\* the similarity test with the boundary left out
IsDuplicateScoreStrict(similarity) == similarity > DedupThreshold

\* the similarity test of is_duplicate
IsDuplicateScore(similarity) == similarity >= DedupThreshold

NotDuplicate == [is_duplicate |-> FALSE, matched_claim_id |-> NoId, similarity |-> 0]

\* Deduplicator.is_duplicate(new_claim, session): the first stored record,
\* in the order the query returns them, whose embedding is as close as the
\* threshold (every record the two writers store has an embedding)
RECURSIVE is_duplicate(_, _)
is_duplicate(new_claim, existing) ==
    IF existing = <<>> THEN NotDuplicate
    ELSE LET similarity == compute_similarity(new_claim, Head(existing).claim)
         IN IF IsDuplicateScore(similarity)
            THEN [is_duplicate |-> TRUE, matched_claim_id |-> Head(existing).id,
                  similarity |-> similarity]
            ELSE is_duplicate(new_claim, Tail(existing))

(* ------------------------ /analyze/text -------------------------------- *)

\* FactCheck.language.in_([detected_language, 'en'])
LanguagesSearched(detected) == {detected, "en"}

\* the rows session.query(FactCheck).filter(...).all() returns
QueryByLanguage(rows, detected) ==
    SelectSeq(rows, LAMBDA r : r.language \in LanguagesSearched(detected))

\* the two branches tested in the other order: Gemini whenever it is enabled
AfterLookupReasonerFirst(matches, enabled) ==
    IF enabled THEN "reasoner"
    ELSE IF matches # <<>> THEN "database"
    ELSE "none"

\* "if matches: ... elif gemini_analyzer.enabled and GEMINI_ENABLED ...": the
\* branch the handler takes after the lookup
AfterLookup(matches, enabled) ==
    IF matches # <<>> THEN "database"
    ELSE IF enabled THEN "reasoner"
    ELSE "none"

\* the gate with the boundary left out
PassesGateStrict(res) == res.present /\ res.confidence > GateThreshold

\* the gate that takes any result Gemini returned
PassesGateAny(res) == res.present /\ res.error = "none"

\* the confidence gate on gemini_result
PassesGate(res) == res.present /\ res.confidence >= GateThreshold

\* the learning gate without its test of the verdict
LearningGateAnyVerdict(confidence, verdict) == confidence >= LearningThreshold

\* the learning gate
LearningGate(confidence, verdict) ==
    confidence >= LearningThreshold /\ verdict # "unverified"

\* datetime bound to the class, as "from datetime import datetime" alone binds it
DatetimeIsClass == TRUE

\* whether the name datetime, as bound when analyze_text runs, has utcnow:
\* "from datetime import datetime" is followed by "import datetime" (twice),
\* which rebinds the name to the module, and the module has no utcnow
DatetimeHasUtcnow == FALSE

\* the learning block's try body: compute_embedding, FactCheck(...,
\* scraped_date=datetime.utcnow(), ...), session.add, session.commit
WritebackOutcome(embedOk, commitOk) ==
    IF ~embedOk THEN "embedding_error"
    ELSE IF ~DatetimeHasUtcnow THEN "attribute_error"
    ELSE IF ~commitOk THEN "commit_error"
    ELSE "saved"

NoMatch == [present |-> FALSE, id |-> NoId, source |-> "none"]

\* the handler's locals as they are initialised (lines 157-161)
IdleLocals ==
    [pc |-> "idle", text |-> "", language |-> "en", matches |-> <<>>,
     verdict |-> "unverified", confidence |-> 0, matched_fact_check |-> NoMatch,
     gemini_result |-> NoResult, analysis_source |-> "database",
     session |-> "none"]

\* what the current request has done so far: the tiers it ran, in order, the
\* number of times it entered the learning block, how the block ended, and
\* whether is_duplicate would have reported the candidate when it was entered
\* (calls: the Gemini models called, in order, each with what its call did)
NoHistory ==
    [tiers |-> <<>>, writebacks |-> 0, wbOutcome |-> "none", wbDup |-> FALSE,
     calls |-> <<>>]

NoResponse ==
    [kind |-> "none", cause |-> "none", verdict |-> "unverified", confidence |-> 0,
     matched |-> NoMatch, gemini_result |-> NoResult, analysis_source |-> "database"]

\* jsonify({'error': str(e)}), 500
Error500(cause) == [NoResponse EXCEPT !.kind = "error", !.cause = cause]

\* the JSON body of the 200 response
OkResponse(loc) ==
    [kind |-> "ok", cause |-> "none", verdict |-> loc.verdict,
     confidence |-> loc.confidence, matched |-> loc.matched_fact_check,
     gemini_result |-> IF loc.analysis_source = "gemini" THEN loc.gemini_result
                       ELSE NoResult,
     analysis_source |-> loc.analysis_source]

\* lines 157-167 and the elif: the locals after the lookup
LookupStep(loc, rows, enabled) ==
    LET matches == find_matching_claims(loc.text, QueryByLanguage(rows, loc.language))
        branch == AfterLookup(matches, enabled)
        found == [loc EXCEPT !.matches = matches,
                             !.matched_fact_check =
                                 [present |-> TRUE, id |-> matches[1].id,
                                  source |-> "database"],
                             !.confidence = matches[1].score,
                             !.verdict = matches[1].verdict,
                             !.analysis_source = "database"]
    IN IF branch = "reasoner" THEN [loc EXCEPT !.matches = matches, !.pc = "reason"]
       ELSE IF branch = "database" THEN [found EXCEPT !.pc = "respond"]
       ELSE [loc EXCEPT !.matches = matches, !.pc = "respond"]

\* lines 174-193: the locals after analyze_text_claim returned res; comparing
\* a confidence that is not a number with the threshold raises TypeError
ReasonStep(loc, res) ==
    IF res.shape = "badtype"
    THEN [loc EXCEPT !.gemini_result = res, !.pc = "raise"]
    ELSE IF PassesGate(res)
    THEN [loc EXCEPT !.gemini_result = res,
                     !.verdict = res.verdict,
                     !.confidence = res.confidence,
                     !.analysis_source = "gemini",
                     !.matched_fact_check =
                         [present |-> TRUE, id |-> NoId, source |-> "Gemini AI"],
                     !.pc = IF LearningGate(res.confidence, res.verdict)
                            THEN "writeback" ELSE "respond"]
    ELSE [loc EXCEPT !.gemini_result = res, !.pc = "respond"]

\* an except branch that gives the decision up
OnWritebackErrorAbstain(loc) ==
    [loc EXCEPT !.pc = "respond", !.verdict = "unverified", !.confidence = 0,
                !.matched_fact_check = NoMatch, !.analysis_source = "database"]

\* an except branch that runs the learning block again
OnWritebackErrorRetry(loc) == [loc EXCEPT !.pc = "writeback"]

\* the except branch of the learning block: print, session.rollback(); the
\* handler goes on to generate the response
OnWritebackError(loc) == [loc EXCEPT !.pc = "respond"]

\* the record a learning writeback appends
GeminiRecord(loc, id) ==
    [id |-> id, claim |-> loc.text, verdict |-> loc.verdict,
     language |-> loc.language, source_url |-> "none", source_type |-> "gemini",
     confidence_score |-> loc.confidence]

\* lines 233-272 once the pipeline has decided (locals nl): the response text,
\* the UserQuery row and its commit, session.close(), jsonify; a failing commit
\* is caught by the handler's outer except, and so is an exception raised
\* before the pipeline decided. A handler that has not decided yet keeps its
\* locals for its next step.
Continue(q, nl) ==
    IF nl.pc = "respond"
    THEN \E logOk \in BOOLEAN :
            /\ h' = [h EXCEPT ![q] = [nl EXCEPT !.pc = "done",
                                                !.session = IF logOk THEN "closed"
                                                            ELSE @]]
            /\ resp' = [resp EXCEPT ![q] = IF logOk THEN OkResponse(nl)
                                           ELSE Error500("log_commit")]
    ELSE IF nl.pc = "raise"
    THEN /\ h' = [h EXCEPT ![q] = [nl EXCEPT !.pc = "done"]]
         /\ resp' = [resp EXCEPT ![q] = Error500("type_error")]
    ELSE /\ h' = [h EXCEPT ![q] = nl]
         /\ resp' = resp

\* a request arrives: text_analyzer.analyze_text(text) (language, embedding)
Q_Start(q, texts) ==
    /\ h[q].pc = "idle"
    /\ \E text \in texts, embedOk \in BOOLEAN :
          IF embedOk
          THEN /\ h' = [h EXCEPT ![q] = [IdleLocals EXCEPT !.pc = "lookup",
                                            !.text = text,
                                            !.language = detect_language(text)]]
               /\ resp' = resp
          ELSE /\ h' = [h EXCEPT ![q] = [IdleLocals EXCEPT !.pc = "done", !.text = text]]
               /\ resp' = [resp EXCEPT ![q] = Error500("embedding")]
    /\ UNCHANGED <<corpus, hist, ing, tw, msg>>

\* db.get_session(), session.query(...).all(), find_matching_claims and the
\* branch on matches;
\* enabled is gemini_analyzer.enabled and GEMINI_ENABLED as the request reads them
Q_Lookup(q) ==
    /\ h[q].pc = "lookup"
    /\ \E storeOk \in BOOLEAN, enabled \in BOOLEAN :
          IF ~storeOk
          THEN /\ h' = [h EXCEPT ![q].pc = "done", ![q].session = "open"]
               /\ resp' = [resp EXCEPT ![q] = Error500("store_read")]
               /\ hist' = hist
          ELSE /\ hist' = [hist EXCEPT ![q].tiers = Append(@, "local")]
               /\ \E rows \in StoreOrders(corpus) :
                     Continue(q, LookupStep([h[q] EXCEPT !.session = "open"],
                                            rows, enabled))
    /\ UNCHANGED <<corpus, ing, tw, msg>>

\* gemini_analyzer.analyze_text_claim, the confidence gate and the learning gate
Q_Reason(q, outcomes, payloads) ==
    /\ h[q].pc = "reason"
    /\ \E outs \in outcomes, payload \in payloads :
          /\ Continue(q, ReasonStep(h[q], analyze_text_claim(outs, payload)))
          /\ hist' = [hist EXCEPT ![q].tiers = Append(@, "reasoner"),
                                  ![q].calls =
                                      generate_with_fallback(outs, 1, "none").calls]
    /\ UNCHANGED <<corpus, ing, tw, msg>>

\* the learning block
Q_Writeback(q) ==
    /\ h[q].pc = "writeback"
    /\ \E embedOk \in BOOLEAN, commitOk \in BOOLEAN :
          LET out == WritebackOutcome(embedOk, commitOk)
              id == Len(corpus) + 1
          IN /\ hist' = [hist EXCEPT ![q].writebacks = @ + 1,
                                     ![q].wbOutcome = out,
                                     ![q].wbDup = is_duplicate(h[q].text, corpus).is_duplicate]
             /\ IF out = "saved"
                THEN /\ corpus' = Append(corpus, GeminiRecord(h[q], id))
                     /\ Continue(q, [h[q] EXCEPT !.pc = "respond",
                                                 !.matched_fact_check.id = id])
                ELSE /\ corpus' = corpus
                     /\ Continue(q, OnWritebackError(h[q]))
    /\ UNCHANGED <<ing, tw, msg>>

\* the response is sent and the thread takes the next request
Q_Return(q) ==
    /\ h[q].pc = "done"
    /\ h' = [h EXCEPT ![q] = IdleLocals]
    /\ resp' = [resp EXCEPT ![q] = NoResponse]
    /\ hist' = [hist EXCEPT ![q] = NoHistory]
    /\ UNCHANGED <<corpus, ing, tw, msg>>

(* --------------------------- ingestion --------------------------------- *)

\* the fact-check dicts the scrapers can return
Candidates ==
    { [claim |-> "e1", verdict |-> "false", language |-> "en", source_url |-> "u1"],
      [claim |-> "t1", verdict |-> "misleading", language |-> "ta", source_url |-> "u2"],
      [claim |-> "h1", verdict |-> "false", language |-> "hi", source_url |-> "u1"],
      [claim |-> "", verdict |-> "false", language |-> "en", source_url |-> "u3"] }

\* scrape_all(): a batch of distinct scraped dicts
Batches ==
    { b \in UNION { [1..n -> Candidates] : n \in 1..MaxBatch } :
        \A i, j \in 1..Len(b) : i # j => b[i] # b[j] }

\* a record that is given a confidence of its own
ScrapedRecordScored(fc, id) ==
    [id |-> id, claim |-> fc.claim, verdict |-> fc.verdict, language |-> fc.language,
     source_url |-> fc.source_url, source_type |-> "scraped", confidence_score |-> 100]

\* the record save_fact_checks_to_db builds from a scraped dict
ScrapedRecord(fc, id) ==
    [id |-> id, claim |-> fc.claim, verdict |-> fc.verdict, language |-> fc.language,
     source_url |-> fc.source_url, source_type |-> "scraped", confidence_score |-> Null]

\* a test of the URL that sees the committed rows only
UrlExistsCommitted(url, rows, pending) ==
    \E i \in 1..Len(rows) : rows[i].source_url = url

\* session.query(FactCheck).filter(source_url == url).first(): the committed
\* rows and, by autoflush, the rows this session has added
UrlExists(url, rows, pending) ==
    \/ \E i \in 1..Len(rows) : rows[i].source_url = url
    \/ \E i \in 1..Len(pending) : pending[i].source_url = url

\* the ids the database gives the rows of a commit
RECURSIVE WithIds(_, _)
WithIds(pending, next) ==
    IF pending = <<>> THEN <<>>
    ELSE <<ScrapedRecord(Head(pending), next)>> \o WithIds(Tail(pending), next + 1)

\* a list of existing claims that also holds the claims of this batch that
\* were found unique so far
ExistingWithBatch(rows, unique) == rows \o WithIds(unique, Len(rows) + 1)

\* Deduplicator.get_existing_claims(session): the rows the query returned; the
\* claims of the batch found unique so far are in unique_claims only, the
\* session gets them when save_fact_checks_to_db adds them
get_existing_claims(rows, unique) == rows

\* a loop that checks the dicts without a claim text too
KeepsClaimAny(claim_text) == TRUE

\* "if not claim_text: continue"
KeepsClaim(claim_text) == claim_text # ""

\* the ScraperLog row of a job that has not run a scraper yet
NoLog == [status |-> "none", ended |-> FALSE, articles_scraped |-> 0]

\* ScraperLog(status='running', articles_scraped=0), added and committed
RunningLog == [status |-> "running", ended |-> FALSE, articles_scraped |-> 0]

\* the row after a branch of run_scraper set status, end_time and
\* articles_scraped and committed
EndedLog(status, n) == [status |-> status, ended |-> TRUE, articles_scraped |-> n]

\* the locals of run_scraper: existing and last are what the latest calls of
\* get_existing_claims and is_duplicate returned; log is the ScraperLog row as
\* the database holds it, ret what run_scraper returned, exit how the latest
\* call ended
IdleIngest ==
    [pc |-> "idle", batch |-> <<>>, i |-> 1, unique |-> <<>>, pending |-> <<>>,
     last |-> NotDuplicate, existing |-> <<>>, saved_count |-> 0,
     log |-> NoLog, ret |-> Null, exit |-> "none"]

\* run_scraper returns n
Returned(log, n) == [IdleIngest EXCEPT !.log = log, !.ret = n, !.exit = "returned"]

\* an exception leaves run_scraper; the loop of run_all_scrapers has no try,
\* so it leaves run_all_scrapers too (scraping_job catches it)
Escaped(log) == [IdleIngest EXCEPT !.log = log, !.exit = "escaped"]

\* the except branch of run_scraper: it reads the log row, sets 'failure' and
\* commits in the session the try block used, with no rollback before; when
\* that raises, the row stays as it was committed
OnScraperError(handlerOk) ==
    IF handlerOk THEN Returned(EndedLog("failure", 0), 0) ELSE Escaped(RunningLog)

\* the ways an exception raised inside the try block of run_scraper ends
OnScraperErrors == { OnScraperError(handlerOk) : handlerOk \in BOOLEAN }

\* run_scraper up to the call of filter_duplicates: the commit of the new log
\* row, before the try block, raises; or scrape_all() raises; or it returns
\* nothing ('no_data' is committed, or that commit raises); or it returns a
\* batch
I_Start(batches) ==
    /\ ing.pc = "idle"
    /\ ing' \in {Escaped(NoLog), Returned(EndedLog("no_data", 0), 0)}
                \cup OnScraperErrors
                \cup { [IdleIngest EXCEPT !.pc = "filter", !.batch = b,
                                          !.log = RunningLog] : b \in batches }
    /\ UNCHANGED <<corpus, h, resp, hist, tw, msg>>

\* the locals after one iteration of the loop of filter_duplicates in which
\* the query returned rows
FilterStep(g, rows) ==
    LET fc == g.batch[g.i]
        checked == KeepsClaim(fc.claim)
        existing == get_existing_claims(rows, g.unique)
        duplicate == IF checked THEN is_duplicate(fc.claim, existing) ELSE g.last
        unique == IF checked /\ ~duplicate.is_duplicate
                  THEN Append(g.unique, fc) ELSE g.unique
        g1 == [g EXCEPT !.unique = unique, !.last = duplicate,
                        !.existing = IF checked THEN existing ELSE @]
    IN IF g.i < Len(g.batch) THEN [g1 EXCEPT !.i = @ + 1]
       ELSE [g1 EXCEPT !.i = 1, !.pc = IF unique = <<>> THEN "commit" ELSE "save"]

\* one iteration of the loop of filter_duplicates; the query or the embedding
\* of is_duplicate can raise, and nothing in filter_duplicates catches it
I_Filter ==
    /\ ing.pc = "filter"
    /\ ing' \in { FilterStep(ing, rows) : rows \in StoreOrders(corpus) }
                \cup IF KeepsClaim(ing.batch[ing.i].claim) THEN OnScraperErrors
                     ELSE {}
    /\ UNCHANGED <<corpus, h, resp, hist, tw, msg>>

\* one iteration of the loop of save_fact_checks_to_db (an exception in it
\* is a database error, which shows again as the failed commit of I_Commit)
I_Save ==
    /\ ing.pc = "save"
    /\ LET fc == ing.unique[ing.i]
           exists == UrlExists(fc.source_url, corpus, ing.pending)
           g == IF exists THEN ing
                ELSE [ing EXCEPT !.pending = Append(@, fc), !.saved_count = @ + 1]
       IN ing' = IF ing.i < Len(ing.unique)
                 THEN [g EXCEPT !.i = @ + 1]
                 ELSE [g EXCEPT !.i = 1, !.pc = "commit"]
    /\ UNCHANGED <<corpus, h, resp, hist, tw, msg>>

\* a commit that replaces the stored rows by the rows of this run
I_CommitReplacing ==
    /\ ing.pc = "commit"
    /\ corpus' = WithIds(ing.pending, 1)
    /\ ing' = Returned(EndedLog("success", ing.saved_count), ing.saved_count)
    /\ UNCHANGED <<h, resp, hist, tw, msg>>

\* session.commit() of save_fact_checks_to_db, or its rollback with
\* saved_count = 0; then the 'success' update of the log row and the return,
\* or the except branch when that update raises
I_Commit ==
    /\ ing.pc = "commit"
    /\ \E commitOk \in BOOLEAN :
          LET saved_count == IF commitOk THEN ing.saved_count ELSE 0
          IN /\ corpus' = IF commitOk
                          THEN corpus \o WithIds(ing.pending, Len(corpus) + 1)
                          ELSE corpus
             /\ ing' \in {Returned(EndedLog("success", saved_count), saved_count)}
                         \cup OnScraperErrors
    /\ UNCHANGED <<h, resp, hist, tw, msg>>

(* ---------------- /twilio/whatsapp and the message log ----------------- *)

\* the request threads of the webhook
WebhookThreads == {"m1", "m2"}

\* FactCheck.language.in_(['en', 'ta']) of the webhook's text branch
WebhookLanguages == {"en", "ta"}

NoReply == [kind |-> "none", id |-> NoId, verdict |-> "unverified"]

IdleWebhook == [pc |-> "idle", text |-> "", reply |-> NoReply]

\* message_logs = [], log_lock = threading.Lock(); an entry is known by the
\* number of the append that made it; stage is where each thread is inside
\* log_message
IdleLog ==
    [logs |-> <<>>, lock |-> "free", calls |-> 0,
     stage |-> [t \in WebhookThreads |-> "none"]]

\* a lock that lets every thread in
CanAcquireAlways(lock) == TRUE

\* "with log_lock": the lock can be taken when no thread holds it
CanAcquire(lock) == lock = "free"

\* "if len(message_logs) > 100: message_logs.pop(0)"
Trim(logs) == IF Len(logs) > MaxLogs THEN Tail(logs) ELSE logs

\* the reply of the text branch (lines 605-639): rows are the rows the query
\* returned, res what analyze_text_claim returned, named whether the text of a
\* rate-limit error has 'rate' or 'quota' in it (it can have only '429')
TextReply(text, rows, enabled, res, named) ==
    LET matches == find_matching_claims(text, rows)
    IN IF matches # <<>>
       THEN [kind |-> "match", id |-> matches[1].id, verdict |-> matches[1].verdict]
       ELSE IF ~enabled THEN [NoReply EXCEPT !.kind = "unverified"]
       ELSE IF res.error = "none" /\ res.shape = "badtype"
       THEN [NoReply EXCEPT !.kind = "error"]
       ELSE IF res.error = "none" /\ res.confidence >= GateThreshold
       THEN [kind |-> "gemini", id |-> NoId, verdict |-> res.verdict]
       ELSE IF res.error = "rate" /\ named THEN [NoReply EXCEPT !.kind = "busy"]
       ELSE IF res.error = "json" THEN [NoReply EXCEPT !.kind = "malformed"]
       ELSE [NoReply EXCEPT !.kind = "unverified"]

\* a text message arrives (no media, no URL in it): Body.strip()
W_Receive(t, texts) ==
    /\ tw[t].pc = "idle"
    /\ \E text \in texts : tw' = [tw EXCEPT ![t] = [IdleWebhook EXCEPT !.pc = "log_in",
                                                                    !.text = text]]
    /\ UNCHANGED <<corpus, h, resp, hist, ing, msg>>

\* log_message, called for INCOMING and for OUTGOING: entering "with log_lock"
L_Acquire(t) ==
    /\ tw[t].pc \in {"log_in", "log_out"}
    /\ msg.stage[t] = "none"
    /\ msg.calls < MaxCalls
    /\ CanAcquire(msg.lock)
    /\ msg' = [msg EXCEPT !.lock = t, !.stage[t] = "locked"]
    /\ UNCHANGED <<corpus, h, resp, hist, ing, tw>>

\* message_logs.append(...)
L_Append(t) ==
    /\ msg.stage[t] = "locked"
    /\ msg' = [msg EXCEPT !.logs = Append(@, msg.calls + 1), !.calls = @ + 1,
                          !.stage[t] = "appended"]
    /\ UNCHANGED <<corpus, h, resp, hist, ing, tw>>

\* the test of the length, pop(0), leaving "with log_lock", and the return:
\* after INCOMING the webhook goes on to analyse the text, after OUTGOING it
\* sends the reply
L_Trim(t) ==
    /\ msg.stage[t] = "appended"
    /\ msg' = [msg EXCEPT !.logs = Trim(@), !.lock = "free", !.stage[t] = "none"]
    /\ tw' = [tw EXCEPT ![t] = IF tw[t].pc = "log_in"
                               THEN [tw[t] EXCEPT !.pc = "analyze"]
                               ELSE IdleWebhook]
    /\ UNCHANGED <<corpus, h, resp, hist, ing>>

\* the text branch: the query of the 'en' and 'ta' rows, find_matching_claims,
\* the Gemini fallback; any exception gives the apology reply
W_Text(t, outcomes, payloads) ==
    /\ tw[t].pc = "analyze"
    /\ \E storeOk \in BOOLEAN, enabled \in BOOLEAN, named \in BOOLEAN,
          rows \in StoreOrders(corpus), outs \in outcomes, payload \in payloads :
          tw' = [tw EXCEPT ![t].pc = "log_out",
                           ![t].reply =
                               IF ~storeOk THEN [NoReply EXCEPT !.kind = "error"]
                               ELSE TextReply(tw[t].text,
                                              SelectSeq(rows, LAMBDA r :
                                                  r.language \in WebhookLanguages),
                                              enabled,
                                              analyze_text_claim(outs, payload),
                                              named)]
    /\ UNCHANGED <<corpus, h, resp, hist, ing, msg>>

(* ------------------------- specifications ------------------------------ *)

Init ==
    /\ corpus = <<>>
    /\ h = [q \in Handlers |-> IdleLocals]
    /\ resp = [q \in Handlers |-> NoResponse]
    /\ hist = [q \in Handlers |-> NoHistory]
    /\ ing = IdleIngest
    /\ tw = [t \in WebhookThreads |-> IdleWebhook]
    /\ msg = IdleLog

\* every result of one model list
AllOutcomes == [1..Len(Models) -> ModelOutcomes]

\* one request thread and the ingestion job, over every input
Next ==
    \/ Q_Start("w1", Texts)
    \/ Q_Lookup("w1")
    \/ Q_Reason("w1", AllOutcomes, Payloads)
    \/ Q_Writeback("w1")
    \/ Q_Return("w1")
    \/ I_Start(Batches)
    \/ I_Filter
    \/ I_Save
    \/ I_Commit

Spec == Init /\ [][Next]_vars

\* the inputs of the concurrent runs: requests for two texts that are near
\* duplicates of each other, a first model that answers "true" at 0.95, and
\* scraped batches of one claim
ConcTexts == {"t1", "h1"}
ConcOutcomes == {<<"ok", "ok">>}
ConcPayloads == {[kind |-> "json", verdict |-> "true", confidence |-> 95]}
ConcBatches == {b \in Batches : Len(b) = 1}

\* two request threads and the ingestion job, interleaved at every database
\* statement
NextConc ==
    \/ \E q \in Handlers : Q_Start(q, ConcTexts)
    \/ \E q \in Handlers : Q_Lookup(q)
    \/ \E q \in Handlers : Q_Reason(q, ConcOutcomes, ConcPayloads)
    \/ \E q \in Handlers : Q_Writeback(q)
    \/ \E q \in Handlers : Q_Return(q)
    \/ I_Start(ConcBatches)
    \/ I_Filter
    \/ I_Save
    \/ I_Commit

SpecConc == Init /\ [][NextConc]_vars

\* the inputs of the ingestion runs: scraped dicts of two near duplicates
\* under two URLs (h1 and t1), of one claim under two URLs (h1), of two
\* unrelated claims under one URL (t1 and e2), and of no claim; batches of
\* them; and the corpora earlier runs can have stored, one URL per record (a
\* batch scraped while the store was empty is stored whole)
DedupCandidates ==
    { [claim |-> "h1", verdict |-> "false", language |-> "hi", source_url |-> "u1"],
      [claim |-> "t1", verdict |-> "misleading", language |-> "ta", source_url |-> "u2"],
      [claim |-> "e2", verdict |-> "true", language |-> "en", source_url |-> "u2"],
      [claim |-> "h1", verdict |-> "true", language |-> "hi", source_url |-> "u3"],
      [claim |-> "", verdict |-> "false", language |-> "en", source_url |-> "u3"] }

DedupBatches ==
    { b \in UNION { [1..n -> DedupCandidates] : n \in 1..MaxBatch } :
        \A i, j \in 1..Len(b) : i # j => b[i] # b[j] }

DedupCorpora ==
    { WithIds(b, 1) :
        b \in { c \in UNION { [1..n -> DedupCandidates] : n \in 0..MaxCorpus } :
                  /\ \A i \in 1..Len(c) : c[i].claim # ""
                  /\ \A i, j \in 1..Len(c) :
                        i # j => c[i].source_url # c[j].source_url } }

InitDedup ==
    /\ corpus \in DedupCorpora
    /\ h = [q \in Handlers |-> IdleLocals]
    /\ resp = [q \in Handlers |-> NoResponse]
    /\ hist = [q \in Handlers |-> NoHistory]
    /\ ing = IdleIngest
    /\ tw = [t \in WebhookThreads |-> IdleWebhook]
    /\ msg = IdleLog

\* the ingestion job alone, run after run
NextDedup ==
    \/ I_Start(DedupBatches)
    \/ I_Filter
    \/ I_Save
    \/ I_Commit

SpecDedup == InitDedup /\ [][NextDedup]_vars

\* the requests of the lookup runs go to a store that earlier ingestion runs
\* filled
InitLookup ==
    /\ corpus \in DedupCorpora
    /\ h = [q \in Handlers |-> IdleLocals]
    /\ resp = [q \in Handlers |-> NoResponse]
    /\ hist = [q \in Handlers |-> NoHistory]
    /\ ing = IdleIngest
    /\ tw = [t \in WebhookThreads |-> IdleWebhook]
    /\ msg = IdleLog

\* one request thread, request after request
NextLookup ==
    \/ Q_Start("w1", Texts)
    \/ Q_Lookup("w1")
    \/ Q_Reason("w1", ConcOutcomes, ConcPayloads)
    \/ Q_Writeback("w1")
    \/ Q_Return("w1")

SpecLookup == InitLookup /\ [][NextLookup]_vars

\* the inputs of the webhook runs: messages in Tamil and in Hindi, a store
\* that holds nothing or one record of one of these texts, and a Gemini whose
\* models both answer "true" at 0.95 or are both rate limited
WebhookTexts == {"t1", "h1"}
WebhookOutcomes == {<<"ok", "ok">>, <<"rate", "rate">>}
WebhookCorpora ==
    { c \in DedupCorpora :
        Len(c) <= 1 /\ \A i \in 1..Len(c) : c[i].claim \in WebhookTexts }

InitWebhook ==
    /\ corpus \in WebhookCorpora
    /\ h = [q \in Handlers |-> IdleLocals]
    /\ resp = [q \in Handlers |-> NoResponse]
    /\ hist = [q \in Handlers |-> NoHistory]
    /\ ing = IdleIngest
    /\ tw = [t \in WebhookThreads |-> IdleWebhook]
    /\ msg = IdleLog

\* the webhook's request threads, interleaved at every step of log_message
NextWebhook ==
    \/ \E t \in WebhookThreads : W_Receive(t, WebhookTexts)
    \/ \E t \in WebhookThreads : L_Acquire(t)
    \/ \E t \in WebhookThreads : L_Append(t)
    \/ \E t \in WebhookThreads : L_Trim(t)
    \/ \E t \in WebhookThreads : W_Text(t, WebhookOutcomes, ConcPayloads)

SpecWebhook == InitWebhook /\ [][NextWebhook]_vars

(* ------------------------------ claims --------------------------------- *)

Done(q) == h[q].pc = "done"

\* the stored records a lookup for text in language lang can match
Eligible(text, lang) ==
    { i \in 1..Len(corpus) :
        /\ corpus[i].language \in {lang, "en"}
        /\ compute_similarity(text, corpus[i].claim) >= MatchThreshold }

\* C1: when the lookup runs and some stored record in the detected language or
\* in English is as similar to the text as the match threshold (the threshold
\* itself included), the handler decides at once with analysis_source
\* 'database', the verdict of a record of highest similarity and that
\* similarity as confidence, and a 200 response carries exactly that
C1_IndexedMatch ==
    [][\A q \in Handlers :
          (h[q].pc = "lookup" /\ hist'[q].tiers = <<"local">>
             /\ Eligible(h[q].text, h[q].language) # {})
          => /\ h'[q].pc = "done"
             /\ h'[q].analysis_source = "database"
             /\ h'[q].gemini_result = NoResult
             /\ \E i \in Eligible(h[q].text, h[q].language) :
                   /\ \A j \in Eligible(h[q].text, h[q].language) :
                         compute_similarity(h[q].text, corpus[j].claim)
                            <= compute_similarity(h[q].text, corpus[i].claim)
                   /\ h'[q].verdict = corpus[i].verdict
                   /\ h'[q].confidence = compute_similarity(h[q].text, corpus[i].claim)
                   /\ h'[q].matched_fact_check = [present |-> TRUE, id |-> i,
                                                  source |-> "database"]
             /\ resp'[q].kind = "ok"
                   => /\ resp'[q].verdict = h'[q].verdict
                      /\ resp'[q].confidence = h'[q].confidence
                      /\ resp'[q].matched = h'[q].matched_fact_check
                      /\ resp'[q].analysis_source = "database"]_vars

\* a request answered from the corpus with two matches, the best one exact and
\* the other exactly at the threshold
C1_Witness ==
    \E q \in Handlers :
        /\ Done(q) /\ resp[q].kind = "ok" /\ resp[q].analysis_source = "database"
        /\ Len(h[q].matches) = 2
        /\ h[q].matches[2].score = MatchThreshold
        /\ resp[q].confidence = 100

\* C2: a request runs the local tier first and at most once, runs Gemini at
\* most once and only after the local tier, and never runs Gemini when the
\* local tier found a match
C2_TierOrder ==
    \A q \in Handlers :
        /\ hist[q].tiers \in {<<>>, <<"local">>, <<"local", "reasoner">>}
        /\ hist[q].tiers = <<"local", "reasoner">> => h[q].matches = <<>>
        /\ h[q].pc = "reason" => (hist[q].tiers = <<"local">> /\ h[q].matches = <<>>)

C2_Witness ==
    \E q \in Handlers : Done(q) /\ hist[q].tiers = <<"local", "reasoner">>

\* C3: when Gemini returned a parsed result, the request is decided from it
\* (analysis_source 'gemini', its verdict and confidence, the result in the
\* response) exactly when its confidence is at least the gate threshold
C3_ConfidenceGate ==
    \A q \in Handlers :
        (Done(q) /\ h[q].gemini_result.present /\ h[q].gemini_result.error = "none")
        => /\ h[q].analysis_source = "gemini"
                <=> h[q].gemini_result.confidence >= GateThreshold
           /\ h[q].analysis_source = "gemini"
                => /\ h[q].verdict = h[q].gemini_result.verdict
                   /\ h[q].confidence = h[q].gemini_result.confidence
           /\ resp[q].kind = "ok"
                => /\ resp[q].analysis_source = h[q].analysis_source
                   /\ resp[q].verdict = h[q].verdict
                   /\ resp[q].confidence = h[q].confidence
                   /\ h[q].analysis_source = "gemini"
                        => resp[q].gemini_result = h[q].gemini_result

\* a result exactly at the gate threshold decided the request
C3_Witness ==
    \E q \in Handlers :
        /\ Done(q) /\ resp[q].kind = "ok" /\ resp[q].analysis_source = "gemini"
        /\ resp[q].gemini_result.confidence = GateThreshold
        /\ resp[q].confidence = GateThreshold

\* C4: a request whose lookup matched nothing and that has no Gemini result
\* at or above the gate threshold (Gemini off, failed, or below the gate) is
\* answered 'unverified' with confidence 0, no matched fact-check, and without
\* entering the learning block
C4_Abstained ==
    \A q \in Handlers :
        (Done(q) /\ resp[q].kind = "ok" /\ h[q].matches = <<>>
           /\ ~(h[q].gemini_result.present
                  /\ h[q].gemini_result.confidence >= GateThreshold))
        => /\ resp[q].verdict = "unverified"
           /\ resp[q].confidence = 0
           /\ resp[q].matched = NoMatch
           /\ resp[q].gemini_result = NoResult
           /\ hist[q].writebacks = 0

\* Gemini answered just below the gate and the request was answered unverified
C4_Witness ==
    \E q \in Handlers :
        /\ Done(q) /\ resp[q].kind = "ok"
        /\ hist[q].tiers = <<"local", "reasoner">>
        /\ h[q].gemini_result.error = "none"
        /\ h[q].gemini_result.confidence = 59
        /\ resp[q].verdict = "unverified"

\* C5: a finished request entered the learning block (once) exactly when it
\* was decided by Gemini with confidence at least the learning threshold and
\* a verdict other than 'unverified'
C5_LearningGate ==
    \A q \in Handlers :
        /\ hist[q].writebacks <= 1
        /\ Done(q)
             => (hist[q].writebacks = 1
                   <=> /\ h[q].analysis_source = "gemini"
                       /\ h[q].confidence >= LearningThreshold
                       /\ h[q].verdict # "unverified")

\* a result exactly at the learning threshold entered the learning block
C5_Witness ==
    \E q \in Handlers :
        /\ Done(q) /\ hist[q].writebacks = 1
        /\ h[q].confidence = LearningThreshold

\* C6: a learning writeback whose candidate is_duplicate would report (a stored
\* record at or above the dedup threshold) is stopped before the record is
\* built and saved
C6_DedupBeforePersist ==
    \A q \in Handlers :
        hist[q].wbDup => hist[q].wbOutcome \in {"duplicate", "embedding_error"}

\* C7: after a learning block that failed, the request keeps the verdict,
\* confidence and analysis_source Gemini decided, and the response is the 200
\* response with them (or the 500 of the query log's own commit, never an
\* error of the writeback)
C7_WritebackFailureKeepsDecision ==
    \A q \in Handlers :
        (Done(q) /\ hist[q].wbOutcome \notin {"none", "saved"})
        => /\ h[q].analysis_source = "gemini"
           /\ h[q].verdict = h[q].gemini_result.verdict
           /\ h[q].confidence = h[q].gemini_result.confidence
           /\ resp[q].kind = "error" => resp[q].cause = "log_commit"
           /\ resp[q].kind = "ok"
                => /\ resp[q].analysis_source = "gemini"
                   /\ resp[q].verdict = h[q].gemini_result.verdict
                   /\ resp[q].confidence = h[q].gemini_result.confidence
                   /\ resp[q].gemini_result = h[q].gemini_result

C7_Witness ==
    \E q \in Handlers :
        /\ Done(q) /\ hist[q].wbOutcome = "attribute_error"
        /\ resp[q].kind = "ok" /\ resp[q].analysis_source = "gemini"
        /\ resp[q].confidence = 95

GeminiRecordsOf(text) ==
    { i \in 1..Len(corpus) :
        corpus[i].source_type = "gemini" /\ corpus[i].claim = text }

C10_WritebackAppends ==
    \A q \in Handlers :
        (/\ Done(q)
         /\ hist[q].tiers = <<"local", "reasoner">>
         /\ \A i \in 1..Len(corpus) : corpus[i].source_type # "scraped"
         /\ h[q].gemini_result.error = "none"
         /\ h[q].gemini_result.confidence = 95
         /\ h[q].gemini_result.verdict = "true"
         /\ hist[q].wbOutcome \notin {"embedding_error", "commit_error"})
        => /\ h[q].analysis_source = "gemini"
           /\ hist[q].writebacks = 1
           /\ Cardinality(GeminiRecordsOf(h[q].text)) = 1

\* ---- C11 .. C20 ----

\* C11: a request enters the learning block at most once, and having entered
\* it goes on to its response whatever the block did (no second attempt after
\* a failure); the block adds at most one record, and no other step of a
\* request adds any
C11_AtMostOneWriteback ==
    [][\A q \in Handlers :
          /\ hist'[q].writebacks <= 1
          /\ hist'[q].writebacks > hist[q].writebacks
               => /\ h[q].pc = "writeback"
                  /\ h'[q].pc = "done"
                  /\ Len(corpus') <= Len(corpus) + 1
          /\ (h'[q] # h[q] /\ h[q].pc # "writeback") => corpus' = corpus]_vars

\* a request whose learning block failed at the embedding was answered
C11_Witness ==
    \E q \in Handlers :
        /\ Done(q) /\ resp[q].kind = "ok"
        /\ hist[q].writebacks = 1
        /\ hist[q].wbOutcome = "embedding_error"

\* C12: every step leaves each stored record where it was and as it was; the
\* corpus after a step is the corpus before it with records appended
C12_AppendOnly ==
    [][/\ Len(corpus') >= Len(corpus)
       /\ SubSeq(corpus', 1, Len(corpus)) = corpus]_vars

\* two ingested records are stored, a later ingestion run is at its commit,
\* and a request has been through the learning block
C12_Witness ==
    /\ Len(corpus) = 2
    /\ ing.pc = "commit"
    /\ \E q \in Handlers : Done(q) /\ hist[q].writebacks = 1

\* C13: every stored scraped record has a null confidence score; every stored
\* Gemini-generated record has a confidence score that is not null and that
\* was, when the record was appended, the confidence of the request that
\* appended it
C13_ConfidenceByOrigin ==
    [][\A i \in 1..Len(corpus') :
          /\ corpus'[i].source_type = "scraped" => corpus'[i].confidence_score = Null
          /\ corpus'[i].source_type = "gemini"
               => /\ corpus'[i].confidence_score # Null
                  /\ i > Len(corpus)
                       => \E q \in Handlers :
                             /\ h[q].pc = "writeback"
                             /\ corpus'[i].confidence_score = h[q].confidence]_vars

\* scraped records of two origins are stored
C13_Witness ==
    /\ Len(corpus) = 2
    /\ \A i \in 1..Len(corpus) :
          corpus[i].source_type = "scraped" /\ corpus[i].confidence_score = Null

\* C14 as stated: after a model's rate-limit failure the next model of the
\* list is called, and after any other failure of a model (an exception of
\* another kind, or a response blocked without content) no later model is
\* called
C14_OtherFailureAborts ==
    \A q \in Handlers :
        \A k \in 1..Len(hist[q].calls) :
            /\ (hist[q].calls[k].outcome = "rate" /\ k < Len(Models))
                 => (Len(hist[q].calls) > k /\ hist[q].calls[k + 1].model = Models[k + 1])
            /\ hist[q].calls[k].outcome \in {"hard", "blocked"}
                 => Len(hist[q].calls) = k

\* C14 (amended): after a model's rate-limit failure, and also after a
\* response blocked without content, the next model of the list is called;
\* after an exception of any other kind no later model is called and the
\* result is the error result of that exception
C14_RateLimitAdvances ==
    \A q \in Handlers :
        \A k \in 1..Len(hist[q].calls) :
            /\ (hist[q].calls[k].outcome \in {"rate", "blocked"} /\ k < Len(Models))
                 => (Len(hist[q].calls) > k /\ hist[q].calls[k + 1].model = Models[k + 1])
            /\ hist[q].calls[k].outcome = "hard"
                 => (Len(hist[q].calls) = k /\ h[q].gemini_result.error = "hard")

\* the first model was rate limited and the second raised another error
C14_Witness ==
    \E q \in Handlers :
        /\ Done(q)
        /\ hist[q].calls = <<[model |-> 1, outcome |-> "rate"],
                             [model |-> 2, outcome |-> "hard"]>>

\* C15: the models are called in the order of the list, each at most once; a
\* model that returns a usable response is the last one called and the parsed
\* result names it as its model; when no model does, the result is an error
\* result; and when the first model is rate limited and the second answers
\* with confidence 0.7, the request is decided by Gemini with that confidence
\* and the result names the second model
C15_PriorityOrder ==
    \A q \in Handlers :
        LET calls == hist[q].calls
            res == h[q].gemini_result
        IN /\ Len(calls) <= Len(Models)
           /\ \A k \in 1..Len(calls) :
                 /\ calls[k].model = Models[k]
                 /\ calls[k].outcome = "ok"
                      => /\ k = Len(calls)
                         /\ res.error \in {"none", "json"}
                         /\ res.error = "none" => res.model = calls[k].model
           /\ (calls # <<>> /\ calls[Len(calls)].outcome # "ok")
                 => res.error \in {"rate", "hard", "blocked"}
           /\ (/\ calls = <<[model |-> 1, outcome |-> "rate"],
                            [model |-> 2, outcome |-> "ok"]>>
               /\ res.shape = "full" /\ res.confidence = 70)
                 => /\ h[q].analysis_source = "gemini"
                    /\ h[q].confidence = 70
                    /\ h[q].verdict = res.verdict
                    /\ res.model = Models[2]
                    /\ resp[q].kind = "ok" => resp[q].gemini_result.model = Models[2]

\* the first model was rate limited, the second answered 'true' at 0.7, and
\* the response carries that result
C15_Witness ==
    \E q \in Handlers :
        /\ Done(q) /\ resp[q].kind = "ok"
        /\ hist[q].calls = <<[model |-> 1, outcome |-> "rate"],
                             [model |-> 2, outcome |-> "ok"]>>
        /\ resp[q].analysis_source = "gemini"
        /\ resp[q].confidence = 70 /\ resp[q].verdict = "true"
        /\ resp[q].gemini_result.model = 2

\* what analyze_text_claim returns when the first model answers 'unverified'
\* just below the gate
BelowGateResult ==
    analyze_text_claim(<<"ok", "ok">>,
                       [kind |-> "json", verdict |-> "unverified", confidence |-> 59])

\* C16: the 200 response to a request whose Gemini call failed (every model
\* rate limited or blocked, or an exception that ended the fallback) differs
\* from the 200 response the same request gets when Gemini answers below the
\* gate
C16_FailureSurfaced ==
    \A q \in Handlers :
        (/\ Done(q) /\ resp[q].kind = "ok"
         /\ h[q].gemini_result.error \in {"rate", "hard", "blocked"})
        => resp[q] # OkResponse(ReasonStep([h[q] EXCEPT !.gemini_result = NoResult],
                                           BelowGateResult))

\* C17: when Gemini's response does not have the expected shape (no JSON
\* object in it, no confidence in the object, or a confidence that is not a
\* number), the result carries the raw response, the request is decided
\* 'unverified' with confidence 0 and not by Gemini, the learning block is not
\* entered, and the handler raises no error for it
C17_MalformedDegrades ==
    \A q \in Handlers :
        (/\ Done(q) /\ h[q].gemini_result.present
         /\ \/ h[q].gemini_result.error = "json"
            \/ h[q].gemini_result.shape \in {"missing", "badtype"})
        => /\ h[q].gemini_result.raw
           /\ h[q].verdict = "unverified" /\ h[q].confidence = 0
           /\ h[q].analysis_source # "gemini"
           /\ hist[q].writebacks = 0
           /\ resp[q].kind = "error" => resp[q].cause = "log_commit"

\* C18: a request with an empty text runs neither the lookup nor Gemini and is
\* answered 'unverified' with confidence 0
C18_EmptyShortCircuits ==
    \A q \in Handlers :
        (h[q].pc # "idle" /\ h[q].text = "")
        => /\ hist[q].tiers = <<>>
           /\ (Done(q) /\ resp[q].kind = "ok")
                => (resp[q].verdict = "unverified" /\ resp[q].confidence = 0)

\* C19: a request whose pipeline reached its decision (the lookup ran and the
\* gate raised nothing) is answered with the 200 response of that decision,
\* whether or not the commit of the query log succeeded
C19_LogFailureBestEffort ==
    \A q \in Handlers :
        (Done(q) /\ hist[q].tiers # <<>> /\ h[q].gemini_result.shape # "badtype")
        => resp[q] = OkResponse(h[q])

\* the stored records as similar to claim as the dedup threshold
DupHits(claim) ==
    { k \in 1..Len(corpus) :
        compute_similarity(claim, corpus[k].claim) >= DedupThreshold }

\* C20: when filter_duplicates calls is_duplicate for a claim, the result
\* reports a duplicate exactly when some stored record is as similar as the
\* dedup threshold (0.85 itself included), the record it names is the first
\* such record in the order of the store with that record's similarity, and
\* otherwise (none such, or nothing stored) it is the not-duplicate result
C20_FirstHit ==
    [][(ing.pc = "filter" /\ ing'.pc # "idle" /\ ing.batch[ing.i].claim # "")
        => LET claim == ing.batch[ing.i].claim
               rows == ing'.existing
               hits == { k \in 1..Len(rows) :
                           compute_similarity(claim, rows[k].claim) >= DedupThreshold }
           IN /\ rows \in StoreOrders(corpus)
              /\ ing'.last.is_duplicate <=> DupHits(claim) # {}
              /\ hits = {} => ing'.last = NotDuplicate
              /\ hits # {}
                   => \E k \in hits :
                         /\ \A j \in hits : k <= j
                         /\ ing'.last.matched_claim_id = rows[k].id
                         /\ ing'.last.similarity =
                               compute_similarity(claim, rows[k].claim)]_vars

\* a batch of one claim was checked against a store of which the query
\* returned first a record exactly at the threshold and then a record of the
\* claim itself: the first one was reported
C20_Witness ==
    /\ ing.pc = "commit" /\ Len(ing.batch) = 1 /\ Len(ing.existing) >= 2
    /\ ing.last = [is_duplicate |-> TRUE, matched_claim_id |-> ing.existing[1].id,
                   similarity |-> DedupThreshold]
    /\ ing.existing[2].claim = ing.batch[1].claim

\* ---- C21 .. C30 ----

\* C26: a blocked or empty response is never what _generate_with_fallback
\* returns: the next model is called after it, the result never names the
\* model that was blocked, and when every model was blocked or rate limited
\* the call raises the rate-limit error if a model was rate limited and
\* "all models blocked" otherwise
C26_BlockedNeverReturned ==
    \A q \in Handlers :
        LET calls == hist[q].calls
            res == h[q].gemini_result
        IN (res.present /\ calls # <<>>) =>
           /\ \A k \in 1..Len(calls) :
                 calls[k].outcome = "blocked" =>
                    /\ res.model # calls[k].model
                    /\ k < Len(Models) =>
                          (Len(calls) > k /\ calls[k + 1].model = Models[k + 1])
           /\ (/\ Len(calls) = Len(Models)
               /\ \A k \in 1..Len(calls) : calls[k].outcome \in {"blocked", "rate"})
                => res.error = IF \E k \in 1..Len(calls) : calls[k].outcome = "rate"
                               THEN "rate" ELSE "blocked"

C26_Witness ==
    \E q \in Handlers :
        /\ hist[q].calls = <<[model |-> 1, outcome |-> "rate"],
                             [model |-> 2, outcome |-> "blocked"]>>
        /\ h[q].gemini_result.present
        /\ h[q].gemini_result.error = "rate"

\* the entries the log holds after n appends: the last MaxLogs of them, oldest
\* first
LastEntries(n) ==
    LET kept == IF n > MaxLogs THEN MaxLogs ELSE n
    IN [i \in 1..kept |-> n - kept + i]

\* C30: whenever a log_message call returns, under any interleaving of the
\* calls, the log holds at most 100 entries, and they are the newest entries
\* in the order they were appended: none is lost below the cap and the oldest
\* is the one dropped above it
C30_CapFifo ==
    [][\A t \in WebhookThreads :
          (msg.stage[t] = "appended" /\ msg'.stage[t] = "none") =>
             /\ Len(msg'.logs) <= MaxLogs
             /\ msg'.logs = LastEntries(msg'.calls)]_vars

C30_Witness ==
    /\ msg.calls = MaxLogs + 2
    /\ msg.lock = "free"
    /\ Len(msg.logs) = MaxLogs
    /\ msg.logs[1] = 3
    /\ \E t \in WebhookThreads : tw[t].pc = "log_in" /\ msg.stage[t] = "none"

\* C25: a stored record that a lookup returns is in the language detected for
\* the query or in the default language 'en'
C25_WebhookLanguages ==
    \A t \in WebhookThreads :
        tw[t].reply.kind = "match" =>
            \E i \in 1..Len(corpus) :
                /\ corpus[i].id = tw[t].reply.id
                /\ corpus[i].language \in {detect_language(tw[t].text), "en"}

UniqueOf(batch) ==
    SelectSeq(batch, LAMBDA fc : fc.claim # "" /\ DupHits(fc.claim) = {})

\* C22: what filter_duplicates returns is, in the order of the batch, exactly
\* the candidates that have a claim text and that no stored record is as
\* similar to as the threshold (so far as the loop has come, while it runs),
\* and every record run_scraper is about to save is one of them
C22_FilterExact ==
    /\ ing.pc = "filter" => ing.unique = UniqueOf(SubSeq(ing.batch, 1, ing.i - 1))
    /\ ing.pc \in {"save", "commit"} =>
          /\ ing.unique = UniqueOf(ing.batch)
          /\ \A k \in 1..Len(ing.pending) :
                /\ \E m \in 1..Len(ing.unique) : ing.unique[m] = ing.pending[k]
                /\ DupHits(ing.pending[k].claim) = {}

\* of a batch of two candidates with a claim the first duplicated a stored
\* record and the second did not
C22_Witness ==
    /\ ing.pc = "save" /\ Len(ing.batch) = 2
    /\ ing.batch[1].claim # "" /\ DupHits(ing.batch[1].claim) # {}
    /\ ing.unique = <<ing.batch[2]>>

C27_UrlUnique ==
    /\ \A i, j \in 1..Len(corpus) :
          (i # j /\ corpus[i].source_type = "scraped" /\ corpus[j].source_type = "scraped")
             => corpus[i].source_url # corpus[j].source_url
    /\ \A i, j \in 1..Len(ing.pending) :
          i # j => ing.pending[i].source_url # ing.pending[j].source_url
    /\ \A i \in 1..Len(ing.pending), k \in 1..Len(corpus) :
          ing.pending[i].source_url # corpus[k].source_url
    /\ ing.saved_count = Len(ing.pending)

\* two unique candidates of a batch had the same URL: one was added
C27_Witness ==
    /\ ing.pc = "commit" /\ Len(ing.unique) = 2
    /\ ing.unique[1].source_url = ing.unique[2].source_url
    /\ ing.saved_count = 1
    /\ ing.pending = <<ing.unique[1]>>

\* C28: while run_scraper runs its log row is 'running', and however a call
\* that created its log row ends, it ends by returning, with the row in one of
\* the terminal statuses and with an end time; a run that failed returns 0
C28_LogTerminal ==
    /\ ing.pc # "idle" => ing.log.status = "running"
    /\ (ing.exit # "none" /\ ing.log.status # "none") =>
          /\ ing.exit = "returned"
          /\ ing.log.status \in {"no_data", "success", "failure"}
          /\ ing.log.ended
          /\ ing.log.status \in {"no_data", "failure"} => ing.ret = 0

\* C24: the matches of a lookup are in descending order of similarity, and
\* of two matches of equal similarity the record created first (the one with
\* the smaller id) comes first
C24_TieByCreation ==
    \A q \in Handlers :
        \A i, j \in 1..Len(h[q].matches) :
            i < j => \/ h[q].matches[i].score > h[q].matches[j].score
                     \/ /\ h[q].matches[i].score = h[q].matches[j].score
                        /\ h[q].matches[i].id < h[q].matches[j].id

\* C29: when the handler has its response, the database session it obtained
\* is closed
C29_SessionClosed ==
    \A q \in Handlers : Done(q) => h[q].session # "open"

====
